---- MODULE Spec2Model ----
(***************************************************************************)
(* Model of src/currency.py: a command-line utility that fetches the EUR   *)
(* and USD exchange rates of the last `days` days, one HTTP request per    *)
(* day, over one aiohttp session.                                          *)
(*                                                                         *)
(* The program is a single asyncio task.  Its position is pc; the code     *)
(* between two awaits is one action.  The environment chooses argv, the    *)
(* wall-clock date, the moments the date changes, and the outcome of each  *)
(* request.                                                                *)
(***************************************************************************)
EXTENDS Integers, Sequences, FiniteSets, TLC

VARIABLES
    argv,       \* sys.argv: program name followed by the arguments
    pc,         \* position of the task
    now,        \* the wall-clock date, in days since the model's epoch
    ticks,      \* midnights passed since the program started
    runCalled,  \* CurrencyApp.run has been entered
    days,       \* the parsed day count
    today,      \* get_exchange_rates: the local `today`
    i,          \* get_exchange_rates: the loop variable
    date,       \* get_exchange_rates: the local `date`
    data,       \* get_exchange_rates: the local `data`
    rates,      \* get_exchange_rates: the local `rates`
    results,    \* get_exchange_rates: the local `results`
    session,    \* the aiohttp.ClientSession: "none", "open" or "closed"
    opens,      \* number of sessions opened so far
    inflight,   \* the requests sent and not yet completed
    exc,        \* the exception propagating out of the task, or NoExc
    stdout,     \* everything printed, in order
    requests,   \* log: every request issued, in order
    responses,  \* log: the outcome of every completed request, in order
    extracted   \* log: every call of _extract_currency_rates, in order

vars == <<argv, pc, now, ticks, runCalled, days, today, i, date, data, rates,
          results, session, opens, inflight, exc, stdout, requests,
          responses, extracted>>

----------------------------------------------------------------------------
(* Bounds of the model *)

\* largest number of command-line arguments
MaxArgs == 2
\* midnights that may pass while the program runs
MaxTicks == 1
\* dates of one run whose request or extraction may fail without ending the run
MaxFailures == 1
\* longest exchangeRate array of the extraction specification
MaxRecords == 3

(* Program constants *)

\* run: 1 <= days <= 10
MIN_DAYS == 1
MAX_DAYS == 10
\* main: len(sys.argv) != 2
ARGC == 2
\* fetch_exchange_rate: response.status == 200
HTTP_OK == 200

----------------------------------------------------------------------------
(* Calendar: datetime, timedelta and strftime("%d.%m.%Y").  A date is the  *)
(* number of days since 31.12.2022, so that day 1 is 01.01.2023.           *)

IsLeap(y) == (y % 4 = 0) /\ ((y % 100 # 0) \/ (y % 400 = 0))

DaysInYear(y) == IF IsLeap(y) THEN 366 ELSE 365

DaysInMonth(y, m) ==
    IF m = 2 THEN (IF IsLeap(y) THEN 29 ELSE 28)
    ELSE IF m \in {4, 6, 9, 11} THEN 30 ELSE 31

RECURSIVE OrdToYMD(_, _, _)
\* the (year, month, day) of day n counted from the first day of month m of year y
OrdToYMD(n, y, m) ==
    IF m = 1 /\ n > DaysInYear(y) THEN OrdToYMD(n - DaysInYear(y), y + 1, 1)
    ELSE IF n > DaysInMonth(y, m) THEN OrdToYMD(n - DaysInMonth(y, m), y, m + 1)
    ELSE [y |-> y, m |-> m, d |-> n]

\* today - timedelta(days=k)
MinusDays(t, k) == t - k

Digits == <<"0", "1", "2", "3", "4", "5", "6", "7", "8", "9">>

Digit(n) == Digits[n + 1]

\* strftime("%d.%m.%Y"): the ten characters DD.MM.YYYY
strftime(t) ==
    LET c == OrdToYMD(t, 2023, 1)
    IN  << Digit(c.d \div 10), Digit(c.d % 10), ".",
           Digit(c.m \div 10), Digit(c.m % 10), ".",
           Digit(c.y \div 1000), Digit((c.y \div 100) % 10),
           Digit((c.y \div 10) % 10), Digit(c.y % 10) >>

\* the dates the wall clock may show when the program starts:
\* 02.01.2024 (the window crosses a year) and 05.03.2024 (it crosses 29.02)
StartDates == {367, 430}

----------------------------------------------------------------------------
(* The command line and int() *)

\* the argument strings of the model: empty, not a number, a sign alone,
\* negative, zero, days in the range (with and without a leading zero: 1, 2
\* and the largest, 10) and days above it (11)
ArgStrings ==
    { <<>>, <<"a">>, <<"1", "a">>, <<"-">>, <<"-", "1">>, <<"0">>,
      <<"1">>, <<"0", "2">>, <<"1", "0">>, <<"1", "1">> }

ProgName == <<"m", "a", "i", "n">>

\* every sys.argv: the program name and at most n arguments
ArgVectors(n) ==
    UNION {{<<ProgName>> \o a : a \in [1..k -> ArgStrings]} : k \in 0..n}

IsDigit(c) == c \in {"0", "1", "2", "3", "4", "5", "6", "7", "8", "9"}

DigitVal(c) ==
    CASE c = "0" -> 0 [] c = "1" -> 1 [] c = "2" -> 2 [] c = "3" -> 3
      [] c = "4" -> 4 [] c = "5" -> 5 [] c = "6" -> 6 [] c = "7" -> 7
      [] c = "8" -> 8 [] c = "9" -> 9

RECURSIVE DigitsVal(_)
DigitsVal(s) ==
    IF s = <<>> THEN 0
    ELSE DigitsVal(SubSeq(s, 1, Len(s) - 1)) * 10 + DigitVal(s[Len(s)])

\* int(s): an optional sign and at least one decimal digit, else ValueError
int(s) ==
    LET neg  == s # <<>> /\ s[1] = "-"
        body == IF neg THEN Tail(s) ELSE s
    IN  IF body = <<>> \/ \E k \in 1..Len(body) : ~IsDigit(body[k])
        THEN [raise |-> "ValueError"]
        ELSE [value |-> IF neg THEN 0 - DigitsVal(body) ELSE DigitsVal(body)]

----------------------------------------------------------------------------
(* Decoded JSON.  An object is a function from its keys; a missing key is  *)
(* missing from the domain.  None is Python's None.                        *)

None == [none |-> TRUE]

NoExc == "NoExc"

\* bool(v) of None or of a dict: None and the empty dict are false
Truthy(v) == v # None /\ DOMAIN v # {}

\* d.get(k, default)
Get(d, k, default) == IF k \in DOMAIN d THEN d[k] ELSE default

\* an optional field: <<>> when the key is missing, <<v>> when it is v
Opt(S) == {<<>>} \cup {<<v>> : v \in S}

\* one element of exchangeRate, built from its optional fields
Record(c, s, p) ==
    [k \in ({"currency" : x \in {1} \cap DOMAIN c}
            \cup {"saleRate" : x \in {1} \cap DOMAIN s}
            \cup {"purchaseRate" : x \in {1} \cap DOMAIN p})
       |-> IF k = "currency" THEN c[1] ELSE IF k = "saleRate" THEN s[1] ELSE p[1]]

Currencies == {"EUR", "USD", "GBP"}
SaleRates == {1, 2}
PurchaseRates == {3}

Records == {Record(c, s, p) : c \in Opt(Currencies), s \in Opt(SaleRates),
                              p \in Opt(PurchaseRates)}

EmptyObject == <<>>

\* a response that has other keys and no exchangeRate
DateOnly == [date |-> "x"]

\* d is a decoded body with an exchangeRate array of at most n records, or
\* one without exchangeRate
IsRawResponse(d, n) ==
    \/ d \in {EmptyObject, DateOnly}
    \/ \E k \in 0..n : \E s \in [1..k -> Records] : d = [exchangeRate |-> s]

----------------------------------------------------------------------------
(* CurrencyService._extract_currency_rates *)

RECURSIVE next_rate_complete(_, _)
\* the search that passes over a matching record without both rate fields
next_rate_complete(exchange_rates, code) ==
    IF exchange_rates = <<>> THEN [raise |-> "StopIteration", arg |-> ""]
    ELSE IF "currency" \notin DOMAIN Head(exchange_rates)
         THEN [raise |-> "KeyError", arg |-> "currency"]
    ELSE IF /\ Head(exchange_rates)["currency"] = code
            /\ {"saleRate", "purchaseRate"} \subseteq DOMAIN Head(exchange_rates)
         THEN [value |-> Head(exchange_rates)]
    ELSE next_rate_complete(Tail(exchange_rates), code)

RECURSIVE next_rate(_, _)
\* next(rate for rate in exchange_rates if rate["currency"] == code)
next_rate(exchange_rates, code) ==
    IF exchange_rates = <<>> THEN [raise |-> "StopIteration", arg |-> ""]
    ELSE IF "currency" \notin DOMAIN Head(exchange_rates)
         THEN [raise |-> "KeyError", arg |-> "currency"]
    ELSE IF Head(exchange_rates)["currency"] = code
         THEN [value |-> Head(exchange_rates)]
    ELSE next_rate(Tail(exchange_rates), code)

\* the first key of the sequence ks that the dict d lacks, or "" if it has all
FirstMissing(d, ks) ==
    IF \A k \in 1..Len(ks) : ks[k] \in DOMAIN d THEN ""
    ELSE ks[CHOOSE k \in 1..Len(ks) :
                /\ ks[k] \notin DOMAIN d
                /\ \A j \in 1..(k - 1) : ks[j] \in DOMAIN d]

\* the try block that files whatever quotes it found: EUR alone when there
\* is no USD record
extract_try_partial(d, dt) ==
    LET exchange_rates == Get(d, "exchangeRate", <<>>)
        eur == next_rate(exchange_rates, "EUR")
        usd == next_rate(exchange_rates, "USD")
    IN  IF "raise" \in DOMAIN eur THEN eur
        ELSE IF FirstMissing(eur.value, <<"saleRate", "purchaseRate">>) # ""
             THEN [raise |-> "KeyError",
                   arg |-> FirstMissing(eur.value, <<"saleRate", "purchaseRate">>)]
        ELSE IF \/ "raise" \in DOMAIN usd
                \/ FirstMissing(usd.value, <<"saleRate", "purchaseRate">>) # ""
             THEN [value |->
                     [k \in {dt} |->
                         [EUR |-> [sale |-> eur.value["saleRate"],
                                   purchase |-> eur.value["purchaseRate"]]]]]
        ELSE [value |->
                [k \in {dt} |->
                    [EUR |-> [sale |-> eur.value["saleRate"],
                              purchase |-> eur.value["purchaseRate"]],
                     USD |-> [sale |-> usd.value["saleRate"],
                              purchase |-> usd.value["purchaseRate"]]]]]

\* the body of the try block: [value |-> the entry] or [raise |-> , arg |-> ]
extract_try(d, dt) ==
    LET exchange_rates == Get(d, "exchangeRate", <<>>)
        eur == next_rate(exchange_rates, "EUR")
        usd == next_rate(exchange_rates, "USD")
    IN  IF "raise" \in DOMAIN eur THEN eur
        ELSE IF "raise" \in DOMAIN usd THEN usd
        ELSE IF FirstMissing(eur.value, <<"saleRate", "purchaseRate">>) # ""
             THEN [raise |-> "KeyError",
                   arg |-> FirstMissing(eur.value, <<"saleRate", "purchaseRate">>)]
        ELSE IF FirstMissing(usd.value, <<"saleRate", "purchaseRate">>) # ""
             THEN [raise |-> "KeyError",
                   arg |-> FirstMissing(usd.value, <<"saleRate", "purchaseRate">>)]
        ELSE [value |->
                [k \in {dt} |->
                    [EUR |-> [sale |-> eur.value["saleRate"],
                              purchase |-> eur.value["purchaseRate"]],
                     USD |-> [sale |-> usd.value["saleRate"],
                              purchase |-> usd.value["purchaseRate"]]]]]

\* except (KeyError, StopIteration)
ExtractCaught == {"KeyError", "StopIteration"}

ShapeDiag(dt, e) == [msg |-> "shape", date |-> dt, err |-> e]

\* the call: what it returns or raises, and what it prints
_extract_currency_rates(d, dt) ==
    LET r == extract_try(d, dt)
    IN  IF "value" \in DOMAIN r THEN [ret |-> r.value, out |-> <<>>]
        ELSE IF r.raise \in ExtractCaught
             THEN [ret |-> None, out |-> <<ShapeDiag(dt, r.arg)>>]
        ELSE [raise |-> r.raise, out |-> <<>>]

----------------------------------------------------------------------------
(* The transport: what one session.get(url) can end in *)

EUR_full == Record(<<"EUR">>, <<1>>, <<3>>)
USD_full == Record(<<"USD">>, <<2>>, <<3>>)

\* the bodies the server answers with in the pipeline specification: a
\* well-formed one, {}, one without exchangeRate, one without a USD record
\* and one whose USD record has no purchaseRate
GoodBody   == [exchangeRate |-> <<EUR_full, USD_full>>]
NoUsdBody  == [exchangeRate |-> <<EUR_full>>]
NoRateBody == [exchangeRate |-> <<EUR_full, Record(<<"USD">>, <<2>>, <<>>)>>]

PipelineBodies == {GoodBody, EmptyObject, DateOnly, NoUsdBody, NoRateBody}

\* aiohttp.ClientError and the subclasses raised for connection and DNS failures
ClientErrorClasses == {"ClientError", "ClientConnectorError"}

\* a response with a status, or an exception raised inside `async with
\* session.get(url)`: a connection failure (ClientConnectorError) or the
\* session's total timeout (asyncio.TimeoutError, not a ClientError)
Outcomes ==
    {[kind |-> "response", status |-> HTTP_OK, body |-> b] : b \in PipelineBodies}
    \cup {[kind |-> "response", status |-> 500, body |-> EmptyObject]}
    \cup {[kind |-> "raise", exc |-> e] : e \in {"ClientConnectorError", "TimeoutError"}}

StatusDiag(dt, st) == [msg |-> "status", date |-> dt, status |-> st]
NetDiag(dt, e)     == [msg |-> "network", date |-> dt, err |-> e]

\* CurrencyAPI.fetch_exchange_rate, given how its request ends
fetch_exchange_rate(dt, o) ==
    IF o.kind = "raise"
    THEN IF o.exc \in ClientErrorClasses
         THEN [ret |-> None, out |-> <<NetDiag(dt, o.exc)>>]
         ELSE [raise |-> o.exc, out |-> <<>>]
    ELSE IF o.status = HTTP_OK
         THEN [ret |-> o.body, out |-> <<>>]
         ELSE [ret |-> None, out |-> <<StatusDiag(dt, o.status)>>]

\* the outcome leaves the date out of the results and the run goes on
DropsDate(dt, o) ==
    LET f == fetch_exchange_rate(dt, o)
    IN  /\ "ret" \in DOMAIN f
        /\ \/ ~Truthy(f.ret)
           \/ LET x == _extract_currency_rates(f.ret, dt)
              IN  "ret" \in DOMAIN x /\ ~Truthy(x.ret)

----------------------------------------------------------------------------
(* The program *)

Init ==
    /\ argv \in ArgVectors(MaxArgs)
    /\ now \in StartDates
    /\ pc = "main"
    /\ ticks = 0
    /\ runCalled = FALSE
    /\ days = 0
    /\ today = 0
    /\ i = 0
    /\ date = <<>>
    /\ data = None
    /\ rates = None
    /\ results = <<>>
    /\ session = "none"
    /\ opens = 0
    /\ inflight = {}
    /\ exc = NoExc
    /\ stdout = <<>>
    /\ requests = <<>>
    /\ responses = <<>>
    /\ extracted = <<>>

\* the wall clock passes midnight
Tick ==
    /\ pc \notin {"exit", "crashed"}
    /\ ticks < MaxTicks
    /\ now' = now + 1
    /\ ticks' = ticks + 1
    /\ UNCHANGED <<argv, pc, runCalled, days, today, i, date, data, rates,
                   results, session, opens, inflight, exc, stdout, requests,
                   responses, extracted>>

\* main(), up to asyncio.run(app.run(days))
main ==
    /\ pc = "main"
    /\ IF Len(argv) # ARGC
       THEN /\ stdout' = Append(stdout, [msg |-> "usage"])
            /\ pc' = "exit"
            /\ days' = days
       ELSE IF "raise" \in DOMAIN int(argv[2])
       THEN /\ stdout' = Append(stdout, [msg |-> "not_integer"])
            /\ pc' = "exit"
            /\ days' = days
       ELSE /\ days' = int(argv[2]).value
            /\ pc' = "run"
            /\ stdout' = stdout
    /\ UNCHANGED <<argv, now, ticks, runCalled, today, i, date, data, rates,
                   results, session, opens, inflight, exc, requests,
                   responses, extracted>>

\* the check without its upper limit
ValidDays_no_upper(n) == MIN_DAYS <= n

\* 1 <= days <= 10
ValidDays(n) == MIN_DAYS <= n /\ n <= MAX_DAYS

\* CurrencyApp.run, up to the call of get_exchange_rates
run ==
    /\ pc = "run"
    /\ runCalled' = TRUE
    /\ IF ~ValidDays(days)
       THEN /\ stdout' = Append(stdout, [msg |-> "range"])
            /\ pc' = "exit"
       ELSE /\ stdout' = Append(stdout, [msg |-> "fetching", days |-> days])
            /\ pc' = "get_exchange_rates"
    /\ UNCHANGED <<argv, now, ticks, days, today, i, date, data, rates,
                   results, session, opens, inflight, exc, requests,
                   responses, extracted>>

\* get_exchange_rates: today, results and the entry of `async with`
get_exchange_rates ==
    /\ pc = "get_exchange_rates"
    /\ today' = now
    /\ results' = <<>>
    /\ session' = "open"
    /\ opens' = opens + 1
    /\ i' = 0
    /\ pc' = "loop"
    /\ UNCHANGED <<argv, now, ticks, runCalled, days, date, data, rates,
                   inflight, exc, stdout, requests, responses, extracted>>

\* the date computed from a clock read again at every iteration
loop_date_rereads(t, k) == strftime(MinusDays(now, k))

\* date = (today - timedelta(days=i)).strftime("%d.%m.%Y")
loop_date(t, k) == strftime(MinusDays(t, k))

\* the loop that sends a request and goes on to the next date without
\* waiting for it
loop_next_no_await ==
    /\ pc = "loop"
    /\ IF i < days
       THEN /\ date' = loop_date(today, i)
            /\ inflight' = inflight \cup {date'}
            /\ requests' = Append(requests, [date |-> date', session |-> session,
                                             sid |-> opens])
            /\ i' = i + 1
            /\ pc' = "loop"
       ELSE /\ pc' = "aexit"
            /\ UNCHANGED <<date, inflight, requests, i>>
    /\ UNCHANGED <<argv, now, ticks, runCalled, days, today, data, rates,
                   results, session, opens, exc, stdout, responses, extracted>>

\* the head of `for i in range(days)`: the next date is formatted and its
\* request is sent on the session, or the loop is over
loop_next ==
    /\ pc = "loop"
    /\ IF i < days
       THEN /\ date' = loop_date(today, i)
            /\ inflight' = inflight \cup {date'}
            /\ requests' = Append(requests, [date |-> date', session |-> session,
                                             sid |-> opens])
            /\ pc' = "fetch"
       ELSE /\ pc' = "aexit"
            /\ UNCHANGED <<date, inflight, requests>>
    /\ UNCHANGED <<argv, now, ticks, runCalled, days, today, i, data, rates,
                   results, session, opens, exc, stdout, responses, extracted>>

\* the request in flight ends with outcome o and fetch_exchange_rate returns
\* or raises; at most MaxFailures dates of a run are dropped, an exception
\* that ends the run may come at any date
fetch_complete(o) ==
    /\ pc = "fetch"
    /\ DropsDate(date, o) => (i - Len(results)) < MaxFailures
    /\ inflight' = inflight \ {date}
    /\ responses' = Append(responses, o)
    /\ LET f == fetch_exchange_rate(date, o)
       IN  /\ stdout' = stdout \o f.out
           /\ IF "raise" \in DOMAIN f
              THEN /\ exc' = f.raise
                   /\ pc' = "aexit"
                   /\ data' = data
              ELSE /\ data' = f.ret
                   /\ pc' = "process"
                   /\ exc' = exc
    /\ UNCHANGED <<argv, now, ticks, runCalled, days, today, i, date, rates,
                   results, session, opens, requests, extracted>>

\* the entry put in front of the earlier ones
append_rates_front(res, r) == IF Truthy(r) THEN <<r>> \o res ELSE res

\* if rates: results.append(rates)
append_rates(res, r) == IF Truthy(r) THEN Append(res, r) ELSE res

\* the rest of the loop body: `if data:`, the extraction, `if rates:`, append
process ==
    /\ pc = "process"
    /\ IF Truthy(data)
       THEN LET x == _extract_currency_rates(data, date)
            IN  /\ extracted' = Append(extracted, [date |-> date, data |-> data])
                /\ stdout' = stdout \o x.out
                /\ IF "raise" \in DOMAIN x
                   THEN /\ exc' = x.raise
                        /\ pc' = "aexit"
                        /\ UNCHANGED <<rates, results, i>>
                   ELSE /\ rates' = x.ret
                        /\ results' = append_rates(results, x.ret)
                        /\ i' = i + 1
                        /\ pc' = "loop"
                        /\ exc' = exc
       ELSE /\ i' = i + 1
            /\ pc' = "loop"
            /\ UNCHANGED <<extracted, stdout, rates, results, exc>>
    /\ UNCHANGED <<argv, now, ticks, runCalled, days, today, date, data,
                   session, opens, inflight, requests, responses>>

\* the session closed after the loop only, not when an exception passes
session_exit_leak ==
    /\ pc = "aexit"
    /\ session' = IF exc = NoExc THEN "closed" ELSE session
    /\ pc' = IF exc = NoExc THEN "returned" ELSE "crashed"
    /\ UNCHANGED <<argv, now, ticks, runCalled, days, today, i, date, data,
                   rates, results, opens, inflight, exc, stdout, requests,
                   responses, extracted>>

\* the exit of `async with aiohttp.ClientSession()`: the session is closed,
\* then get_exchange_rates returns or the exception goes on to the caller
session_exit ==
    /\ pc = "aexit"
    /\ session' = "closed"
    /\ pc' = IF exc = NoExc THEN "returned" ELSE "crashed"
    /\ UNCHANGED <<argv, now, ticks, runCalled, days, today, i, date, data,
                   rates, results, opens, inflight, exc, stdout, requests,
                   responses, extracted>>

\* CurrencyApp.run after get_exchange_rates has returned
run_finish ==
    /\ pc = "returned"
    /\ stdout' = Append(stdout, IF results # <<>>
                                THEN [msg |-> "rates", rates |-> results]
                                ELSE [msg |-> "no_data"])
    /\ pc' = "exit"
    /\ UNCHANGED <<argv, now, ticks, runCalled, days, today, i, date, data,
                   rates, results, session, opens, inflight, exc, requests,
                   responses, extracted>>

Next ==
    \/ Tick
    \/ main
    \/ run
    \/ get_exchange_rates
    \/ loop_next
    \/ \E o \in Outcomes : fetch_complete(o)
    \/ process
    \/ session_exit
    \/ run_finish

Spec == Init /\ [][Next]_vars

----------------------------------------------------------------------------
(* The extraction on its own: _extract_currency_rates applied once to any  *)
(* decoded body of at most MaxRecords records.                             *)

InitExtract ==
    /\ IsRawResponse(data, MaxRecords)
    /\ date \in {strftime(t) : t \in StartDates}
    /\ pc = "extract"
    /\ argv = <<ProgName>>
    /\ now = 0
    /\ ticks = 0
    /\ runCalled = FALSE
    /\ days = 0
    /\ today = 0
    /\ i = 0
    /\ rates = None
    /\ results = <<>>
    /\ session = "none"
    /\ opens = 0
    /\ inflight = {}
    /\ exc = NoExc
    /\ stdout = <<>>
    /\ requests = <<>>
    /\ responses = <<>>
    /\ extracted = <<>>

extract_call ==
    /\ pc = "extract"
    /\ LET x == _extract_currency_rates(data, date)
       IN  /\ stdout' = stdout \o x.out
           /\ extracted' = Append(extracted, [date |-> date, data |-> data])
           /\ IF "raise" \in DOMAIN x
              THEN exc' = x.raise /\ rates' = rates
              ELSE exc' = exc /\ rates' = x.ret
    /\ pc' = "extracted"
    /\ UNCHANGED <<argv, now, ticks, runCalled, days, today, i, date, data,
                   results, session, opens, inflight, requests, responses>>

NextExtract == extract_call

SpecExtract == InitExtract /\ [][NextExtract]_vars

----------------------------------------------------------------------------
(* Reading the logs: calendar dates of keys, diagnostics, success of a date *)

KeyYMD(k) ==
    [d |-> DigitVal(k[1]) * 10 + DigitVal(k[2]),
     m |-> DigitVal(k[4]) * 10 + DigitVal(k[5]),
     y |-> DigitVal(k[7]) * 1000 + DigitVal(k[8]) * 100
           + DigitVal(k[9]) * 10 + DigitVal(k[10])]

\* the characters of k are DD.MM.YYYY
IsDateKey(k) ==
    /\ DOMAIN k = 1..10
    /\ k[3] = "." /\ k[6] = "."
    /\ \A j \in {1, 2, 4, 5, 7, 8, 9, 10} : IsDigit(k[j])

\* c is a day of the calendar
IsCalendarDay(c) == c.m \in 1..12 /\ c.d \in 1..DaysInMonth(c.y, c.m)

\* the calendar day before c
PrevDay(c) ==
    IF c.d > 1 THEN [y |-> c.y, m |-> c.m, d |-> c.d - 1]
    ELSE IF c.m > 1 THEN [y |-> c.y, m |-> c.m - 1, d |-> DaysInMonth(c.y, c.m - 1)]
    ELSE [y |-> c.y - 1, m |-> 12, d |-> 31]

RECURSIVE DaysBeforeYear(_)
DaysBeforeYear(y) ==
    IF y <= 2023 THEN 0 ELSE DaysBeforeYear(y - 1) + DaysInYear(y - 1)

RECURSIVE DaysBeforeMonth(_, _)
DaysBeforeMonth(y, m) ==
    IF m <= 1 THEN 0 ELSE DaysBeforeMonth(y, m - 1) + DaysInMonth(y, m - 1)

\* the day number of the calendar day c
YMDOrd(c) == DaysBeforeYear(c.y) + DaysBeforeMonth(c.y, c.m) + c.d

IsDiag(line) == line.msg \in {"status", "network", "shape"}

Diags == SelectSeq(stdout, IsDiag)

\* the position of a date in the order of the requests
Idx(dt) == CHOOSE k \in 1..Len(requests) : requests[k].date = dt

Is200(o) == o.kind = "response" /\ o.status = 200

\* the position of the first record of s whose currency is c, or 0
FirstIdx(s, c) ==
    IF \E k \in 1..Len(s) : "currency" \in DOMAIN s[k] /\ s[k]["currency"] = c
    THEN CHOOSE k \in 1..Len(s) :
            /\ "currency" \in DOMAIN s[k] /\ s[k]["currency"] = c
            /\ \A j \in 1..(k - 1) :
                  ~("currency" \in DOMAIN s[j] /\ s[j]["currency"] = c)
    ELSE 0

HasRates(r) == {"saleRate", "purchaseRate"} \subseteq DOMAIN r

RatesOf(d) == IF "exchangeRate" \in DOMAIN d THEN d["exchangeRate"] ELSE <<>>

\* both first-match records exist and each has saleRate and purchaseRate
FirstMatchesComplete(d) ==
    LET s == RatesOf(d)
    IN  /\ FirstIdx(s, "EUR") > 0 /\ HasRates(s[FirstIdx(s, "EUR")])
        /\ FirstIdx(s, "USD") > 0 /\ HasRates(s[FirstIdx(s, "USD")])

\* every record scanned before the first match of each currency has a currency
ScannedHaveCurrency(d) ==
    LET s == RatesOf(d)
    IN  \A c \in {"EUR", "USD"} :
            \A j \in 1..(FirstIdx(s, c) - 1) : "currency" \in DOMAIN s[j]

\* the k-th date of the window got HTTP 200 and a body that extracts
Succeeded(k) ==
    /\ Is200(responses[k])
    /\ FirstMatchesComplete(responses[k].body)
    /\ ScannedHaveCurrency(responses[k].body)

\* the date an entry of the results is filed under
KeyOf(entry) == CHOOSE dt \in DOMAIN entry : TRUE

\* the k-th request is for the k-th day of the window: a well-formed key of
\* the calendar day today - (k - 1), the day before the previous request's,
\* and no earlier request was for the same date
IssuedInOrder(k) ==
    LET c == KeyYMD(requests[k].date)
    IN  /\ IsDateKey(requests[k].date)
        /\ IsCalendarDay(c)
        /\ YMDOrd(c) = today - (k - 1)
        /\ k > 1 => c = PrevDay(KeyYMD(requests[k - 1].date))
        /\ \A j \in 1..(k - 1) : requests[j].date # requests[k].date

ArgCountError == Len(argv) # 2
ParseError == Len(argv) = 2 /\ "raise" \in DOMAIN int(argv[2])
RangeError ==
    /\ Len(argv) = 2
    /\ "value" \in DOMAIN int(argv[2])
    /\ (int(argv[2]).value < 1 \/ int(argv[2]).value > 10)

----------------------------------------------------------------------------
(* The claims *)

\* C1: a validation error (wrong number of arguments, a non-integer argument,
\* days outside 1..10) ends the invocation with its message and nothing
\* else: no session is opened, no request is issued, and for the two
\* command-line errors run is never called.
C1_ValidationBeforeNetwork ==
    (ArgCountError \/ ParseError \/ RangeError) =>
        /\ requests = <<>> /\ responses = <<>> /\ inflight = {}
        /\ opens = 0 /\ session = "none"
        /\ pc \in {"main", "run", "exit"}
        /\ (ArgCountError \/ ParseError) => (~runCalled /\ pc # "run")
        /\ pc = "exit" =>
              stdout = << [msg |-> IF ArgCountError THEN "usage"
                                   ELSE IF ParseError THEN "not_integer"
                                   ELSE "range"] >>

C1_Witness ==
    /\ pc = "exit" /\ RangeError /\ runCalled
    /\ int(argv[2]).value = 11
    /\ stdout = <<[msg |-> "range"]>>
    /\ requests = <<>>

\* C2: the requests are for today, today-1, ..., one per date and none
\* twice, each the calendar day before the previous one, `today` being the
\* date read when the call started; when the call returns there were exactly
\* `days` of them, whatever the dates' outcomes were.
C2_RequestWindow ==
    /\ pc = "fetch" => IssuedInOrder(Len(requests))
    /\ pc \in {"returned", "crashed"} =>
          \A k \in 1..Len(requests) : IssuedInOrder(k)
    /\ requests # <<>> =>
          /\ 1 <= days /\ days <= 10 /\ Len(requests) <= days
          /\ today \in (now - ticks)..now
    /\ pc = "loop" => Len(requests) = i
    /\ pc \in {"fetch", "process"} => Len(requests) = i + 1
    /\ (pc = "returned" \/ (pc = "exit" /\ opens > 0)) =>
          Len(requests) = days /\ Len(responses) = days

C2_Witness ==
    /\ pc = "returned" /\ days = 10 /\ Len(requests) = 10
    /\ ticks = 1 /\ today < now
    /\ Len(results) < days
    /\ KeyYMD(requests[1].date).y # KeyYMD(requests[10].date).y

\* C3: the results are, in window order, exactly the dates whose request got
\* HTTP 200 and whose body extracted, each once under its own key; failed
\* dates are absent and do not disturb the others; all failed gives <<>>.
C3_ResultSubsequence ==
    /\ Len(results) <= i
    /\ pc = "returned" =>
          LET ok == {k \in 1..days : Succeeded(k)}
              at == [k \in 1..Len(results) |-> Idx(KeyOf(results[k]))]
          IN  /\ i = days /\ Len(responses) = days
              /\ Len(results) = Cardinality(ok)
              /\ \A k \in 1..Len(results) :
                    /\ DOMAIN results[k] = {requests[at[k]].date}
                    /\ at[k] \in ok
              /\ \A k \in 2..Len(results) : at[k - 1] < at[k]
              /\ ok = {} => results = <<>>

C3_Witness ==
    /\ pc = "returned" /\ days = 10 /\ Len(results) = 9
    /\ \E k \in 2..9 :
          /\ responses[k].kind = "response" /\ responses[k].status = 500
          /\ DOMAIN results[k - 1] = {requests[k - 1].date}
          /\ DOMAIN results[k] = {requests[k + 1].date}

\* C4 (as claimed): a failed request (a network-level failure or a status
\* other than 200) never ends the run: it is reported, the call goes on and
\* no exception leaves get_exchange_rates.
C4_TransportNeverFatal ==
    \A k \in 1..Len(responses) :
        ~Is200(responses[k]) =>
            /\ exc = NoExc
            /\ pc # "crashed"
            /\ \E n \in 1..Len(stdout) :
                  /\ stdout[n].msg \in {"status", "network"}
                  /\ stdout[n].date = requests[k].date

\* a response that has one of the shape errors: no exchangeRate, no EUR
\* record, no USD record, or a first match without saleRate or purchaseRate
HasShapeError(d) == ~FirstMatchesComplete(d)

\* C5 (as claimed): a shape error of a date's decoded response is never
\* fatal: the extraction prints a diagnostic for that date, returns None
\* without raising, and the loop goes on.
C5_ShapeErrorReported ==
    /\ exc \notin {"KeyError", "StopIteration"}
    /\ \A k \in 1..i :
          (Is200(responses[k]) /\ HasShapeError(responses[k].body)) =>
              \E n \in 1..Len(stdout) :
                  /\ stdout[n].msg = "shape"
                  /\ stdout[n].date = requests[k].date

\* the body d has a record of currency c with the sale and purchase of q
HasQuote(d, c, q) ==
    \E n \in 1..Len(RatesOf(d)) :
        LET r == RatesOf(d)[n]
        IN  /\ {"currency", "saleRate", "purchaseRate"} \subseteq DOMAIN r
            /\ r["currency"] = c
            /\ r["saleRate"] = q.sale
            /\ r["purchaseRate"] = q.purchase

\* C6: every entry of the results, in every state, maps one date to EUR and
\* USD, each with sale and purchase, and both quotes are in the response of
\* that date.
C6_EntriesComplete ==
    \A k \in 1..Len(results) :
        /\ Cardinality(DOMAIN results[k]) = 1
        /\ \A dt \in DOMAIN results[k] :
              /\ DOMAIN results[k][dt] = {"EUR", "USD"}
              /\ DOMAIN results[k][dt]["EUR"] = {"sale", "purchase"}
              /\ DOMAIN results[k][dt]["USD"] = {"sale", "purchase"}
              /\ \E j \in 1..Len(responses) :
                    /\ requests[j].date = dt
                    /\ Is200(responses[j])
                    /\ HasQuote(responses[j].body, "EUR", results[k][dt]["EUR"])
                    /\ HasQuote(responses[j].body, "USD", results[k][dt]["USD"])

C6_Witness ==
    /\ pc = "returned" /\ Len(results) >= 2
    /\ \E j \in 1..Len(responses) :
          Is200(responses[j]) /\ responses[j].body \in {NoUsdBody, NoRateBody}

\* C8: one session is opened, before the first request; every request goes
\* out on it while it is open; it is closed when the call ends, by return or
\* by an exception, and nothing is requested after that.
C8_SessionScope ==
    /\ opens <= 1
    /\ (opens = 0) <=> (session = "none")
    /\ \A k \in 1..Len(requests) :
          requests[k].session = "open" /\ requests[k].sid = 1
    /\ pc \in {"loop", "fetch", "process", "aexit"} => session = "open"
    /\ (pc \in {"returned", "crashed"} \/ (pc = "exit" /\ opens > 0)) =>
          session = "closed"
    /\ session = "closed" =>
          inflight = {} /\ pc \in {"returned", "crashed", "exit"}

C8_Witness ==
    /\ pc = "crashed" /\ exc = "TimeoutError" /\ session = "closed"
    /\ Len(requests) >= 2 /\ Len(requests) < days

C10_EveryDropDiagnosed ==
    \A k \in 1..i :
        /\ Is200(responses[k]) =>
              \E n \in 1..Len(extracted) : extracted[n].date = requests[k].date
        /\ (\A n \in 1..Len(results) : requests[k].date \notin DOMAIN results[n]) =>
              \E n \in 1..Len(Diags) : Diags[n].date = requests[k].date

\* what the extraction returned for the body it was applied to, given the
\* condition under which it is to return an entry
ExtractionAgrees(cond) ==
    LET s == RatesOf(data)
        e == FirstIdx(s, "EUR")
        u == FirstIdx(s, "USD")
    IN  /\ exc = NoExc
        /\ (rates # None) <=> cond
        /\ rates # None =>
              /\ DOMAIN rates = {date}
              /\ rates[date]["EUR"] = [sale |-> s[e]["saleRate"],
                                       purchase |-> s[e]["purchaseRate"]]
              /\ rates[date]["USD"] = [sale |-> s[u]["saleRate"],
                                       purchase |-> s[u]["purchaseRate"]]
        /\ rates = None =>
              \E n \in 1..Len(stdout) :
                  stdout[n].msg = "shape" /\ stdout[n].date = date
        /\ "exchangeRate" \notin DOMAIN data => rates = None

\* C7 (as claimed): the extraction uses the first EUR record and the first
\* USD record, returns an entry exactly when both exist and each has
\* saleRate and purchaseRate, copies these values unchanged, and returns
\* None when exchangeRate is absent.
C7_FirstMatchExactly ==
    pc = "extracted" => ExtractionAgrees(FirstMatchesComplete(data))

\* C7 (amended): ... returns an entry exactly when both first matches exist,
\* each has saleRate and purchaseRate, and every record scanned before each
\* first match has a currency field.
C7_FirstMatchAmended ==
    pc = "extracted" =>
        ExtractionAgrees(FirstMatchesComplete(data) /\ ScannedHaveCurrency(data))

C7_Witness ==
    /\ pc = "extracted" /\ rates # None
    /\ Len(RatesOf(data)) = 3
    /\ RatesOf(data)[1] = Record(<<"EUR">>, <<1>>, <<3>>)
    /\ RatesOf(data)[2] = Record(<<"EUR">>, <<2>>, <<3>>)
    /\ rates[date]["EUR"]["sale"] = 1

====
